---- MODULE Spec2Model ----
(***************************************************************************)
(* Model of the book-award consolidation and enrichment pipeline:          *)
(*   - merge_json_files.merge_awards (pure function, specification         *)
(*     SpecMerge),                                                         *)
(*   - BookawardScraper.get_award_info_from_perplexity and the reply       *)
(*     extraction it contains (pure operators),                            *)
(*   - BookawardScraper.enrich_awards_with_perplexity and                  *)
(*     save_enriched_awards (state machine, specification Spec).           *)
(*                                                                         *)
(* Representation.  A string of an award name in the merge model is a      *)
(* sequence of code points.  A record's optional enriched_data field is a  *)
(* sequence of tokens, the empty sequence standing for "key not in the     *)
(* dict".  A reply text of the service is a sequence of tokens.            *)
(***************************************************************************)
EXTENDS Integers, Sequences, FiniteSets, TLC

(* ------------------------------ bounds -------------------------------- *)

\* largest number of records in the loaded input (self.awards)
MaxAwards == 3

\* the limit argument ranges over None and -MaxLimit .. MaxLimit
MaxLimit == 3

\* longest detailed list handed to merge_awards
MaxDetailed == 2

\* longest names list handed to merge_awards
MaxNames == 2

\* longest reply text (in tokens) handed to the extraction on its own
MaxReplyLen == 6

(* ------------------------------ values -------------------------------- *)

\* An optional integer (the limit argument) is << >> for Python's None and
\* <<k>> for the integer k.
None == << >>

Some(k) == <<k>>

IntOf(l) == l[1]

\* enriched_data key missing from the dict
Absent == << >>

\* the dict {"note": "Data not enriched due to processing limit"}
SkipSentinel == <<"note", "Data not enriched due to processing limit">>

\* an enriched_data value written by an earlier run
OldData == <<"old">>

\* the award_name of the p-th record of the loaded input: the names of a
\* merged file are pairwise distinct
AwardNameAt(p) == ToString(p)

\* the inputs self.awards can hold after load_awards: n records with distinct
\* names, each with or without an enriched_data of an earlier run
InputsOfLen(n) ==
  {[p \in 1..n |-> [award_name |-> AwardNameAt(p), enriched_data |-> e[p]]] :
      e \in [1..n -> {Absent, OldData}]}

\* all sequences over S of length at most n
SeqUpTo(S, n) == UNION {[1..k -> S] : k \in 0..n}

Min(a, b) == IF a < b THEN a ELSE b

Max(a, b) == IF a > b THEN a ELSE b

(* ------------------------- Python list slices ------------------------- *)

\* number of leading elements that s[:k] keeps, k an integer
SliceCut(s, k) == IF k >= 0 THEN Min(k, Len(s)) ELSE Max(Len(s) + k, 0)

\* s[:k]
PySliceTo(s, k) == SubSeq(s, 1, SliceCut(s, k))

\* s[k:]
PySliceFrom(s, k) == SubSeq(s, SliceCut(s, k) + 1, Len(s))

\* Python truthiness of the limit argument: None and 0 are false
Truthy(l) == l # None /\ IntOf(l) # 0

(* --------------------- reply texts and extraction --------------------- *)
(* Tokens of a reply text:  "{" and "}" are the brace characters, "n" is   *)
(* any brace-free prose, "B" is the member key "bookAward":, "O" is any    *)
(* other member key, "1" and "2" are JSON scalars.  A JSON value of the    *)
(* model is a scalar, the empty object, or an object with one member.      *)

Scalars == {"1", "2"}

Keys == {"B", "O"}

Tokens == {"{", "}", "n", "B", "O", "1", "2"}

\* the tokens of the reply texts the extraction is exercised with on its own
ReplyAlphabet == Tokens \ {"2"}

\* content.find(c): index of the first c, counted from 0, or -1
Find(s, c) ==
  IF \E k \in 1..Len(s) : s[k] = c
  THEN (CHOOSE k \in 1..Len(s) : s[k] = c /\ \A j \in 1..(k-1) : s[j] # c) - 1
  ELSE -1

\* content.rfind(c): index of the last c, counted from 0, or -1
RFind(s, c) ==
  IF \E k \in 1..Len(s) : s[k] = c
  THEN (CHOOSE k \in 1..Len(s) : s[k] = c /\ \A j \in (k+1)..Len(s) : s[j] # c) - 1
  ELSE -1

\* content[a:b] for 0 <= a < b <= len(content)
Substr(s, a, b) == SubSeq(s, a + 1, b)

RECURSIVE IsJsonValue(_)
\* json.loads accepts the text
IsJsonValue(s) ==
  \/ Len(s) = 1 /\ s[1] \in Scalars
  \/ /\ Len(s) >= 2
     /\ s[1] = "{"
     /\ s[Len(s)] = "}"
     /\ \/ Len(s) = 2
        \/ /\ Len(s) >= 4
           /\ s[2] \in Keys
           /\ IsJsonValue(SubSeq(s, 3, Len(s) - 1))

\* Extract with a bug: line 129 asks for a closing brace anywhere, not for
\* one after the opening brace
Extract_brace_anywhere(content) ==
  LET json_start == Find(content, "{")
      json_end == RFind(content, "}") + 1
  IN IF json_start >= 0 /\ json_end > 0
     THEN LET json_str == Substr(content, json_start, json_end)
          IN IF IsJsonValue(json_str)
             THEN IF Len(json_str) >= 4 /\ json_str[2] = "B"
                  THEN [outcome |-> "ok",
                        payload |-> SubSeq(json_str, 3, Len(json_str) - 1)]
                  ELSE [outcome |-> "MissingEnvelope", payload |-> Absent]
             ELSE [outcome |-> "MalformedJson", payload |-> Absent]
     ELSE [outcome |-> "NoJsonFound", payload |-> Absent]

\* the extraction of lines 125-144: the outcome and, when found, the
\* bookAward payload
Extract(content) ==
  LET json_start == Find(content, "{")
      json_end == RFind(content, "}") + 1
  IN IF json_start >= 0 /\ json_end > json_start
     THEN LET json_str == Substr(content, json_start, json_end)
          IN IF IsJsonValue(json_str)
             THEN IF Len(json_str) >= 4 /\ json_str[2] = "B"
                  THEN [outcome |-> "ok",
                        payload |-> SubSeq(json_str, 3, Len(json_str) - 1)]
                  ELSE [outcome |-> "MissingEnvelope", payload |-> Absent]
             ELSE [outcome |-> "MalformedJson", payload |-> Absent]
     ELSE [outcome |-> "NoJsonFound", payload |-> Absent]

\* replies of the service the enrichment run is exercised with: prose only,
\* braces that are no JSON, a JSON object without the envelope, and an
\* enveloped payload inside prose
ReplyTexts ==
  { <<"n", "n">>,
    <<"{", "n", "}">>,
    <<"{", "O", "1", "}">>,
    <<"n", "{", "B", "{", "O", "2", "}", "}", "n">> }

\* what requests.post and response.json() can produce
Responses ==
  {[kind |-> k, content |-> << >>] :
      k \in {"timeout", "connerr", "status", "nochoices"}}
  \cup {[kind |-> "ok", content |-> c] : c \in ReplyTexts}

\* the reply handed to the code when no request is made
NoResponse == [kind |-> "none", content |-> << >>]

(* ------------------- get_award_info_from_perplexity ------------------- *)

\* whether the lines 117-152 attach a payload: the request succeeded, the
\* reply has choices and the extraction found the envelope
EnrichmentSucceeds(self_api_key, resp) ==
  /\ self_api_key
  /\ resp.kind = "ok"
  /\ Extract(resp.content).outcome = "ok"

\* RequestsMade with a bug: the request is sent without a key as well
RequestsMade_without_key(self_api_key, resp) == 1

\* the number of requests.post calls one call of the method makes: none
\* without a key (lines 40-42), else the one of line 118, whatever comes back
RequestsMade(self_api_key, resp) ==
  IF ~self_api_key THEN 0 ELSE 1

\* get_award_info_from_perplexity with a bug: a failed enrichment stores an
\* error value in enriched_data
get_award_info_error_value(award, self_api_key, resp) ==
  IF ~self_api_key
  THEN <<award>>
  ELSE IF resp.kind = "ok" /\ Extract(resp.content).outcome = "ok"
       THEN <<[award EXCEPT !.enriched_data = Extract(resp.content).payload]>>
       ELSE <<[award EXCEPT !.enriched_data = <<"error", resp.kind>>]>>

\* get_award_info_from_perplexity with a bug: the Timeout is not caught and
\* leaves the method
get_award_info_timeout_escapes(award, self_api_key, resp) ==
  IF ~self_api_key
  THEN <<award>>
  ELSE IF resp.kind = "timeout"
       THEN << >>
       ELSE IF resp.kind = "ok" /\ Extract(resp.content).outcome = "ok"
            THEN <<[award EXCEPT !.enriched_data = Extract(resp.content).payload]>>
            ELSE <<award>>

\* get_award_info_from_perplexity with a bug: the payload is added to the
\* enriched_data the record has
get_award_info_merges_old(award, self_api_key, resp) ==
  IF ~self_api_key
  THEN <<award>>
  ELSE IF resp.kind = "ok" /\ Extract(resp.content).outcome = "ok"
       THEN <<[award EXCEPT !.enriched_data = @ \o Extract(resp.content).payload]>>
       ELSE <<award>>

\* The call of line 173 on a copy of the record.  The result is <<award>>
\* when the method returns and << >> when an Exception leaves it; every
\* Exception is caught inside the method (lines 143, 149, 151), so it always
\* returns.
get_award_info_from_perplexity(award, self_api_key, resp) ==
  IF ~self_api_key
  THEN <<award>>
  ELSE IF resp.kind = "ok"
       THEN LET x == Extract(resp.content)
            IN IF x.outcome = "ok"
               THEN <<[award EXCEPT !.enriched_data = x.payload]>>
               ELSE <<award>>
       ELSE <<award>>

(* ------------------------------ files --------------------------------- *)

\* a file that does not exist
AbsentFile == [st |-> "absent", data |-> << >>]

\* a file right after open(path, 'w'): truncated to length 0
EmptyFile == [st |-> "empty", data |-> << >>]

\* a file holding a proper prefix of the JSON text json.dump was writing
PartialFile == [st |-> "partial", data |-> << >>]

\* a file holding the complete JSON text of the list x
FileOf(x) == [st |-> "ok", data |-> x]

\* the result of an earlier run, left on disk
StaleRun == <<[award_name |-> "earlier", enriched_data |-> OldData]>>

(* --------------------- enrich_awards_with_perplexity ------------------ *)

\* awards_to_process of line 165
WorkingSubset(self_awards, lim) ==
  IF Truthy(lim) THEN PySliceTo(self_awards, IntOf(lim)) ELSE self_awards

\* SkippedTail with a bug: the tail starts one record late
SkippedTail_off_by_one(self_awards, lim) ==
  IF Truthy(lim) /\ IntOf(lim) < Len(self_awards)
  THEN LET rest == PySliceFrom(self_awards, IntOf(lim) + 1)
       IN [p \in 1..Len(rest) |-> [rest[p] EXCEPT !.enriched_data = SkipSentinel]]
  ELSE << >>

\* SkippedTail with a bug: the copies are appended without the sentinel
SkippedTail_no_sentinel(self_awards, lim) ==
  IF Truthy(lim) /\ IntOf(lim) < Len(self_awards)
  THEN PySliceFrom(self_awards, IntOf(lim))
  ELSE << >>

\* the copies the lines 191-195 append
SkippedTail(self_awards, lim) ==
  IF Truthy(lim) /\ IntOf(lim) < Len(self_awards)
  THEN LET rest == PySliceFrom(self_awards, IntOf(lim))
       IN [p \in 1..Len(rest) |-> [rest[p] EXCEPT !.enriched_data = SkipSentinel]]
  ELSE << >>

\* SelfAwardsAfterCall with a bug: line 173 passes the record itself, so
\* what the method sets shows in self.awards
SelfAwardsAfterCall_no_copy(self_awards, idx, returned) ==
  IF returned = << >> THEN self_awards
  ELSE [self_awards EXCEPT ![idx] = returned[1]]

\* self.awards after the call of line 173 for its record idx: the method
\* gets award.copy() and sets enriched_data on that copy
SelfAwardsAfterCall(self_awards, idx, returned) == self_awards

\* self.awards after lines 191-195: the sentinel is set on award.copy()
SelfAwardsAfterTail(self_awards, lim) == self_awards

\* process_limit of lines 301-308
ProcessLimit(args_limit) ==
  IF args_limit = None THEN None
  ELSE IF IntOf(args_limit) = 0 THEN None
  ELSE args_limit

(* ----------------------------- merge_awards -------------------------- *)
(* A string is a sequence of code points: 32 is the space, 70 is "F", 102  *)
(* is "f", 103 is "g", 104 is "h".                                         *)

\* the award names the merge is exercised with:
\* "", " ", "f", " f", "f ", "F", "g", "h"
NameStrings ==
  { << >>, <<32>>, <<102>>, <<32, 102>>, <<102, 32>>, <<70>>, <<103>>, <<104>> }

\* the description of the p-th entry of a detailed list
OrganizationAt(p) == <<"org", p>>

RECURSIVE LStrip(_)
\* the string without its leading whitespace
LStrip(s) == IF s # << >> /\ Head(s) = 32 THEN LStrip(Tail(s)) ELSE s

RECURSIVE RStrip(_)
\* the string without its trailing whitespace
RStrip(s) ==
  IF s # << >> /\ s[Len(s)] = 32 THEN RStrip(SubSeq(s, 1, Len(s) - 1)) ELSE s

\* str.strip()
Strip(s) == RStrip(LStrip(s))

\* str.lower()
Lower(s) == [k \in 1..Len(s) |-> IF s[k] = 70 THEN 102 ELSE s[k]]

RECURSIVE StrLess(_, _)
\* a < b for Python strings: lexicographic on code points
StrLess(a, b) ==
  IF b = << >> THEN FALSE
  ELSE IF a = << >> THEN TRUE
  ELSE IF Head(a) # Head(b) THEN Head(a) < Head(b)
  ELSE StrLess(Tail(a), Tail(b))

\* lines 16-23
convert_name_to_award_dict(name) ==
  [award_name |-> Strip(name),
   registration_url |-> << >>,
   categories |-> << >>,
   organization |-> << >>]

\* A dict is the sequence of its items in insertion order.
DictHas(d, k) == \E p \in 1..Len(d) : d[p].key = k

\* d[k] = v: an existing key keeps its place
DictPut(d, k, v) ==
  IF DictHas(d, k)
  THEN [p \in 1..Len(d) |-> IF d[p].key = k THEN [key |-> k, value |-> v] ELSE d[p]]
  ELSE Append(d, [key |-> k, value |-> v])

\* d.values()
DictValues(d) == [p \in 1..Len(d) |-> d[p].value]

\* the key merge_awards files a name under, lines 31 and 36
MergeKey(name) == Strip(name)

RECURSIVE AddDetailed(_, _)
\* lines 30-32, from the dict d on
AddDetailed(d, detailed) ==
  IF detailed = << >> THEN d
  ELSE AddDetailed(DictPut(d, MergeKey(Head(detailed).award_name), Head(detailed)),
                   Tail(detailed))

RECURSIVE AddNames_keeps_blank(_, _)
\* AddNames with a bug: line 37 without its test `name and`
AddNames_keeps_blank(d, names) ==
  IF names = << >> THEN d
  ELSE LET name == MergeKey(Head(names))
       IN AddNames_keeps_blank(IF ~DictHas(d, name)
                               THEN DictPut(d, name, convert_name_to_award_dict(name))
                               ELSE d,
                               Tail(names))

RECURSIVE AddNames(_, _)
\* lines 35-38, from the dict d on
AddNames(d, names) ==
  IF names = << >> THEN d
  ELSE LET name == MergeKey(Head(names))
       IN AddNames(IF name # << >> /\ ~DictHas(d, name)
                   THEN DictPut(d, name, convert_name_to_award_dict(name))
                   ELSE d,
                   Tail(names))

RECURSIVE InsertSorted_by_key(_, _)
\* InsertSorted with a bug: the records are compared under their merge key
InsertSorted_by_key(s, x) ==
  IF s = << >> THEN <<x>>
  ELSE IF StrLess(MergeKey(x.award_name), MergeKey(Head(s).award_name))
       THEN <<x>> \o s
  ELSE <<Head(s)>> \o InsertSorted_by_key(Tail(s), x)

RECURSIVE InsertSorted(_, _)
\* x put into the sorted list s after every element that is not greater
InsertSorted(s, x) ==
  IF s = << >> THEN <<x>>
  ELSE IF StrLess(x.award_name, Head(s).award_name) THEN <<x>> \o s
  ELSE <<Head(s)>> \o InsertSorted(Tail(s), x)

RECURSIVE SortByAwardName(_, _)
\* sorted(values, key=lambda x: x['award_name']), a stable sort: the
\* elements of rest inserted one by one into acc
SortByAwardName(acc, rest) ==
  IF rest = << >> THEN acc
  ELSE SortByAwardName(InsertSorted(acc, Head(rest)), Tail(rest))

\* merge_awards with a bug: the dict values are returned as they were inserted
merge_awards_unsorted(detailed, names) ==
  DictValues(AddNames(AddDetailed(<< >>, detailed), names))

\* merge_awards with a bug: the loop of line 30 starts at the second entry
merge_awards_skips_first(detailed, names) ==
  SortByAwardName(<< >>,
    DictValues(AddNames(AddDetailed(<< >>, PySliceFrom(detailed, 1)), names)))

\* lines 25-41
merge_awards(detailed, names) ==
  SortByAwardName(<< >>, DictValues(AddNames(AddDetailed(<< >>, detailed), names)))

\* the detailed lists of length n: every entry has a name that is not blank
DetailedOfLen(n) ==
  {[p \in 1..n |-> [award_name |-> nm[p],
                    registration_url |-> << >>,
                    categories |-> << >>,
                    organization |-> OrganizationAt(p)]] :
      nm \in [1..n -> {x \in NameStrings : Strip(x) # << >>}]}

(* ------------------------------ state --------------------------------- *)

VARIABLES
  awards,             \* self.awards, the loaded input
  args_limit,         \* the limit the caller asks for
  api_key,            \* whether self.api_key is set
  limit,              \* the limit parameter of the running call
  awards_to_process,  \* the working subset
  enriched_awards,    \* the accumulated output list
  i,                  \* the loop counter of line 170
  pc,                 \* the position of the run
  partial_file,       \* bookawards_result_partial.json
  final_file,         \* the output file
  outcomes,           \* history: per attempted record, "enriched" or "failed"
  calls,              \* history: the award names the service was asked about
  write_error,        \* history: the latest checkpoint write raised
  flushed,            \* history: the interrupt handler wrote the checkpoint
  final_opens,        \* history: how often the output file was opened to write
  detailed_awards,    \* merge_awards: first argument
  award_names,        \* merge_awards: second argument
  merged_awards,      \* merge_awards: the returned list
  remerged_awards,    \* merge_awards: the list returned for the merged one
  mpc,                \* merge_awards: "input", "merged" or "remerged"
  reply_award,        \* extraction: the record the reply is for
  reply_content,      \* extraction: the text of the reply (content, line 122)
  reply_outcome,      \* extraction: the branch of lines 125-144 taken
  reply_result,       \* extraction: the record returned (line 154)
  xpc                 \* extraction: "reply" or "extracted"

runVars == <<awards, args_limit, api_key, limit, awards_to_process,
             enriched_awards, i, pc, partial_file, final_file, outcomes,
             calls, write_error, flushed, final_opens>>

mergeVars == <<detailed_awards, award_names, merged_awards, remerged_awards,
               mpc>>

extractVars == <<reply_award, reply_content, reply_outcome, reply_result, xpc>>

vars == <<runVars, mergeVars, extractVars>>

\* the limits a caller can pass
Limits == {None} \cup {Some(k) : k \in (0 - MaxLimit)..MaxLimit}

\* the run has not started: the input is loaded, the files of an earlier run
\* are on disk or not
RunInit ==
  /\ awards \in UNION {InputsOfLen(n) : n \in 0..MaxAwards}
  /\ args_limit \in Limits
  /\ api_key \in BOOLEAN
  /\ limit = None
  /\ awards_to_process = << >>
  /\ enriched_awards = << >>
  /\ i = 1
  /\ pc = "start"
  /\ \E earlier \in BOOLEAN :
       /\ partial_file = IF earlier THEN FileOf(StaleRun) ELSE AbsentFile
       /\ final_file = IF earlier THEN FileOf(StaleRun) ELSE AbsentFile
  /\ outcomes = << >>
  /\ calls = << >>
  /\ write_error = FALSE
  /\ flushed = FALSE
  /\ final_opens = 0

MergeIdle ==
  /\ detailed_awards = << >>
  /\ award_names = << >>
  /\ merged_awards = << >>
  /\ remerged_awards = << >>
  /\ mpc = "idle"

\* no reply is being extracted
ExtractIdle ==
  /\ reply_award = [award_name |-> AwardNameAt(1), enriched_data |-> Absent]
  /\ reply_content = << >>
  /\ reply_outcome = "none"
  /\ reply_result = reply_award
  /\ xpc = "idle"

Init == RunInit /\ MergeIdle /\ ExtractIdle

\* no enrichment run
RunIdle ==
  /\ awards = << >>
  /\ args_limit = None
  /\ api_key = FALSE
  /\ limit = None
  /\ awards_to_process = << >>
  /\ enriched_awards = << >>
  /\ i = 1
  /\ pc = "idle"
  /\ partial_file = AbsentFile
  /\ final_file = AbsentFile
  /\ outcomes = << >>
  /\ calls = << >>
  /\ write_error = FALSE
  /\ flushed = FALSE
  /\ final_opens = 0

\* the two lists main() loaded, before the call of line 67
MergeInit ==
  /\ RunIdle
  /\ ExtractIdle
  /\ detailed_awards \in UNION {DetailedOfLen(n) : n \in 0..MaxDetailed}
  /\ award_names \in SeqUpTo(NameStrings, MaxNames)
  /\ merged_awards = << >>
  /\ remerged_awards = << >>
  /\ mpc = "input"

(* ------------------------------ actions ------------------------------- *)

\* lines 162-168: the entry of enrich_awards_with_perplexity with limit lim
Enter(lim) ==
  /\ limit' = lim
  /\ awards_to_process' = WorkingSubset(awards, lim)
  /\ enriched_awards' = << >>
  /\ i' = 1
  /\ pc' = "loop"
  /\ UNCHANGED <<mergeVars, extractVars, final_opens, awards, args_limit, api_key, partial_file, final_file,
                 outcomes, calls, write_error, flushed>>

\* lines 290-312: the command line, which maps --limit 0 to None
Main ==
  /\ pc = "start"
  /\ Enter(ProcessLimit(args_limit))

\* line 206: save_enriched_awards called with the limit as given
CallSave ==
  /\ pc = "start"
  /\ Enter(args_limit)

\* lines 170-172: the next record, entering the try block
LoopNext ==
  /\ pc = "loop"
  /\ i <= Len(awards_to_process)
  /\ pc' = "request"
  /\ UNCHANGED <<mergeVars, extractVars, final_opens, awards, args_limit, api_key, limit, awards_to_process,
                 enriched_awards, i, partial_file, final_file, outcomes,
                 calls, write_error, flushed>>

\* lines 190-197 and 206: the loop is over, the skipped tail is appended and
\* the list is returned to save_enriched_awards
LoopExit ==
  /\ pc = "loop"
  /\ i > Len(awards_to_process)
  /\ enriched_awards' = enriched_awards \o SkippedTail(awards, limit)
  /\ awards' = SelfAwardsAfterTail(awards, limit)
  /\ pc' = "save"
  /\ UNCHANGED <<mergeVars, extractVars, final_opens, args_limit, api_key, limit, awards_to_process, i,
                 partial_file, final_file, outcomes, calls, write_error,
                 flushed>>

\* lines 173-174 (and 186-188 when the call raises): one request at most,
\* the result appended
Enrich ==
  /\ pc = "request"
  /\ \E resp \in (IF api_key THEN Responses ELSE {NoResponse}) :
       LET award == awards_to_process[i]
           r == get_award_info_from_perplexity(award, api_key, resp)
       IN /\ outcomes' = Append(outcomes,
                IF EnrichmentSucceeds(api_key, resp) THEN "enriched" ELSE "failed")
          /\ calls' = calls \o [k \in 1..RequestsMade(api_key, resp) |->
                                  award.award_name]
          /\ awards' = SelfAwardsAfterCall(awards, i, r)
          /\ IF r # << >>
             THEN /\ enriched_awards' = Append(enriched_awards, r[1])
                  /\ pc' = "open"
                  /\ i' = i
             ELSE /\ enriched_awards' = enriched_awards
                  /\ pc' = "loop"
                  /\ i' = i + 1
  /\ UNCHANGED <<mergeVars, extractVars, final_opens, args_limit, api_key, limit, awards_to_process,
                 partial_file, final_file, write_error, flushed>>

\* line 176: open(..., 'w') truncates the checkpoint
OpenPartial ==
  /\ pc = "open"
  /\ partial_file' = EmptyFile
  /\ pc' = "dump"
  /\ UNCHANGED <<mergeVars, extractVars, final_opens, awards, args_limit, api_key, limit, awards_to_process,
                 enriched_awards, i, final_file, outcomes, calls, write_error,
                 flushed>>

\* lines 176, 186-188: open raises OSError, the loop continues
OpenPartialFails ==
  /\ pc = "open"
  /\ write_error' = TRUE
  /\ i' = i + 1
  /\ pc' = "loop"
  /\ UNCHANGED <<mergeVars, extractVars, final_opens, awards, args_limit, api_key, limit, awards_to_process,
                 enriched_awards, partial_file, final_file, outcomes, calls,
                 flushed>>

\* lines 177-178: json.dump completes and the file is closed
DumpPartial ==
  /\ pc = "dump"
  /\ partial_file' = FileOf(enriched_awards)
  /\ write_error' = FALSE
  /\ i' = i + 1
  /\ pc' = "loop"
  /\ UNCHANGED <<mergeVars, extractVars, final_opens, awards, args_limit, api_key, limit, awards_to_process,
                 enriched_awards, final_file, outcomes, calls, flushed>>

\* DumpPartialFails with a bug: the handler of lines 186-188 takes the
\* record that was not saved off the list again
DumpPartialFails_rolls_back ==
  /\ pc = "dump"
  /\ partial_file' \in {EmptyFile, PartialFile}
  /\ write_error' = TRUE
  /\ enriched_awards' = SubSeq(enriched_awards, 1, Len(enriched_awards) - 1)
  /\ i' = i + 1
  /\ pc' = "loop"
  /\ UNCHANGED <<mergeVars, extractVars, final_opens, awards, args_limit,
                 api_key, limit, awards_to_process, final_file, outcomes,
                 calls, flushed>>

\* lines 177, 186-188: json.dump raises OSError part way, the loop continues
DumpPartialFails ==
  /\ pc = "dump"
  /\ partial_file' \in {EmptyFile, PartialFile}
  /\ write_error' = TRUE
  /\ i' = i + 1
  /\ pc' = "loop"
  /\ UNCHANGED <<mergeVars, extractVars, final_opens, awards, args_limit, api_key, limit, awards_to_process,
                 enriched_awards, final_file, outcomes, calls, flushed>>

\* line 179: KeyboardInterrupt raised inside the try block; one raised
\* during json.dump leaves what was written so far
Interrupt ==
  /\ pc \in {"request", "open", "dump"}
  /\ partial_file' \in
       (IF pc = "dump" THEN {partial_file, PartialFile} ELSE {partial_file})
  /\ pc' = "handler"
  /\ UNCHANGED <<mergeVars, extractVars, final_opens, awards, args_limit, api_key, limit, awards_to_process,
                 enriched_awards, i, final_file, outcomes, calls, write_error,
                 flushed>>

\* KeyboardInterrupt raised at lines 170-171 or 190-195, outside the try
\* block: no handler runs and it leaves the method as it is
InterruptBetween ==
  /\ pc = "loop"
  /\ pc' = "interrupted"
  /\ UNCHANGED <<mergeVars, extractVars, final_opens, awards, args_limit, api_key, limit, awards_to_process,
                 enriched_awards, i, partial_file, final_file, outcomes, calls,
                 write_error, flushed>>

\* lines 180-185 with an empty list: nothing is written, the interrupt is
\* raised again
HandlerSkip ==
  /\ pc = "handler"
  /\ enriched_awards = << >>
  /\ pc' = "cancelled"
  /\ UNCHANGED <<mergeVars, extractVars, final_opens, awards, args_limit, api_key, limit, awards_to_process,
                 enriched_awards, i, partial_file, final_file, outcomes, calls,
                 write_error, flushed>>

\* HandlerOpen with a bug: the handler opens the output file
HandlerOpen_writes_final ==
  /\ pc = "handler"
  /\ enriched_awards # << >>
  /\ final_file' = EmptyFile
  /\ pc' = "handler_dump"
  /\ UNCHANGED <<mergeVars, extractVars, final_opens, awards, args_limit,
                 api_key, limit, awards_to_process, enriched_awards, i,
                 partial_file, outcomes, calls, write_error, flushed>>

\* line 182: the handler opens the checkpoint
HandlerOpen ==
  /\ pc = "handler"
  /\ enriched_awards # << >>
  /\ partial_file' = EmptyFile
  /\ pc' = "handler_dump"
  /\ UNCHANGED <<mergeVars, extractVars, final_opens, awards, args_limit, api_key, limit, awards_to_process,
                 enriched_awards, i, final_file, outcomes, calls, write_error,
                 flushed>>

\* line 182: open raises OSError inside the handler, which leaves the run
HandlerOpenFails ==
  /\ pc = "handler"
  /\ enriched_awards # << >>
  /\ write_error' = TRUE
  /\ pc' = "error"
  /\ UNCHANGED <<mergeVars, extractVars, final_opens, awards, args_limit, api_key, limit, awards_to_process,
                 enriched_awards, i, partial_file, final_file, outcomes, calls,
                 flushed>>

\* lines 183-185: the handler's json.dump completes, the interrupt is raised
\* again
HandlerDump ==
  /\ pc = "handler_dump"
  /\ partial_file' = FileOf(enriched_awards)
  /\ write_error' = FALSE
  /\ flushed' = TRUE
  /\ pc' = "cancelled"
  /\ UNCHANGED <<mergeVars, extractVars, final_opens, awards, args_limit, api_key, limit, awards_to_process,
                 enriched_awards, i, final_file, outcomes, calls>>

\* line 183: json.dump raises OSError inside the handler
HandlerDumpFails ==
  /\ pc = "handler_dump"
  /\ partial_file' \in {EmptyFile, PartialFile}
  /\ write_error' = TRUE
  /\ pc' = "error"
  /\ UNCHANGED <<mergeVars, extractVars, final_opens, awards, args_limit, api_key, limit, awards_to_process,
                 enriched_awards, i, final_file, outcomes, calls, flushed>>

\* line 208: save_enriched_awards opens the output file
SaveOpen ==
  /\ pc = "save"
  /\ final_file' = EmptyFile
  /\ final_opens' = final_opens + 1
  /\ pc' = "final_dump"
  /\ UNCHANGED <<mergeVars, extractVars, awards, args_limit, api_key, limit, awards_to_process,
                 enriched_awards, i, partial_file, outcomes, calls,
                 write_error, flushed>>

\* lines 208, 211-212: open raises, the error is printed
SaveOpenFails ==
  /\ pc = "save"
  /\ pc' = "done"
  /\ UNCHANGED <<mergeVars, extractVars, final_opens, awards, args_limit, api_key, limit, awards_to_process,
                 enriched_awards, i, partial_file, final_file, outcomes, calls,
                 write_error, flushed>>

\* lines 209-210: json.dump completes
SaveDump ==
  /\ pc = "final_dump"
  /\ final_file' = FileOf(enriched_awards)
  /\ pc' = "done"
  /\ UNCHANGED <<mergeVars, extractVars, final_opens, awards, args_limit, api_key, limit, awards_to_process,
                 enriched_awards, i, partial_file, outcomes, calls,
                 write_error, flushed>>

\* lines 209, 211-212: json.dump raises part way, the error is printed
SaveDumpFails ==
  /\ pc = "final_dump"
  /\ final_file' \in {EmptyFile, PartialFile}
  /\ pc' = "done"
  /\ UNCHANGED <<mergeVars, extractVars, final_opens, awards, args_limit, api_key, limit, awards_to_process,
                 enriched_awards, i, partial_file, outcomes, calls,
                 write_error, flushed>>

\* KeyboardInterrupt raised in lines 207-210: except Exception does not
\* catch it
InterruptSave ==
  /\ pc \in {"save", "final_dump"}
  /\ final_file' \in
       (IF pc = "final_dump" THEN {final_file, PartialFile} ELSE {final_file})
  /\ pc' = "cancelled_save"
  /\ UNCHANGED <<mergeVars, extractVars, final_opens, awards, args_limit, api_key, limit, awards_to_process,
                 enriched_awards, i, partial_file, outcomes, calls,
                 write_error, flushed>>

Next ==
  \/ Main
  \/ CallSave
  \/ LoopNext
  \/ LoopExit
  \/ Enrich
  \/ OpenPartial
  \/ OpenPartialFails
  \/ DumpPartial
  \/ DumpPartialFails
  \/ Interrupt
  \/ InterruptBetween
  \/ HandlerSkip
  \/ HandlerOpen
  \/ HandlerOpenFails
  \/ HandlerDump
  \/ HandlerDumpFails
  \/ SaveOpen
  \/ SaveOpenFails
  \/ SaveDump
  \/ SaveDumpFails
  \/ InterruptSave

Spec == Init /\ [][Next]_vars

\* line 67: merged_awards = merge_awards(awards1, awards2)
MergeCall ==
  /\ mpc = "input"
  /\ merged_awards' = merge_awards(detailed_awards, award_names)
  /\ mpc' = "merged"
  /\ UNCHANGED <<runVars, extractVars, detailed_awards, award_names, remerged_awards>>

\* merge_awards called again, with its own output and no names
MergeAgain ==
  /\ mpc = "merged"
  /\ remerged_awards' = merge_awards(merged_awards, << >>)
  /\ mpc' = "remerged"
  /\ UNCHANGED <<runVars, extractVars, detailed_awards, award_names, merged_awards>>

MergeNext ==
  \/ MergeCall
  \/ MergeAgain

SpecMerge == MergeInit /\ [][MergeNext]_vars

\* a reply with choices has arrived for a record (line 122), whatever its
\* text
ExtractInit ==
  /\ RunIdle
  /\ MergeIdle
  /\ reply_award \in {[award_name |-> AwardNameAt(1), enriched_data |-> e] :
                        e \in {Absent, OldData}}
  /\ reply_content \in SeqUpTo(ReplyAlphabet, MaxReplyLen)
  /\ reply_outcome = "none"
  /\ reply_result = reply_award
  /\ xpc = "reply"

\* lines 122-154 for that reply: the extraction and the record returned
ExtractReply ==
  /\ xpc = "reply"
  /\ reply_outcome' = Extract(reply_content).outcome
  /\ reply_result' =
       get_award_info_from_perplexity(
         reply_award, TRUE, [kind |-> "ok", content |-> reply_content])[1]
  /\ xpc' = "extracted"
  /\ UNCHANGED <<runVars, mergeVars, reply_award, reply_content>>

ExtractNext == ExtractReply

SpecExtract == ExtractInit /\ [][ExtractNext]_vars

(* ------------------------------ properties ---------------------------- *)
(* A crash (the process killed, power lost) can stop the run in any        *)
(* reachable state and changes no variable, so what a claim says about the *)
(* state after a crash is stated as an invariant of every state.           *)

\* enrich_awards_with_perplexity has returned its list (line 197)
Returned == pc \in {"save", "final_dump", "done"}

\* the run is inside the loop of lines 170-188
InBatch == pc \in {"loop", "request", "open", "dump"}

\* the payloads the extraction can find in the replies
ExtractedPayloads ==
  {Extract(c).payload : c \in {t \in ReplyTexts : Extract(t).outcome = "ok"}}

\* the name a record is compared under, as the claim C1 defines it: trimmed
\* and case-insensitive
NormalizedName(name) == Lower(Strip(name))

\* C1 (as claimed): the output of merge_awards holds at most one record per
\* normalized award_name, the normalization trimming surrounding whitespace
\* and ignoring case.
C1_OneRecordPerNormalizedName ==
  mpc = "merged" =>
    \A p, q \in 1..Len(merged_awards) :
      p # q => NormalizedName(merged_awards[p].award_name)
                 # NormalizedName(merged_awards[q].award_name)

\* C2 (as claimed): after each record whose checkpoint write did not raise,
\* the partial checkpoint holds exactly the accumulated output, and so it
\* does when the handler of lines 179-185 has passed a cancellation on to
\* the caller, whichever record it was raised in.
C2_CheckpointEqualsAccumulated ==
  /\ (pc = "loop" /\ i > 1 /\ ~write_error) =>
        partial_file = FileOf(enriched_awards)
  /\ (pc = "cancelled" /\ ~write_error) =>
        partial_file = FileOf(enriched_awards)

\* C3 (as claimed): the working subset is the first `limit` records when
\* limit is set and positive and the whole input otherwise, and a record
\* carries the skip sentinel only when limit is positive and smaller than
\* the number of records.
C3_WorkingSubsetByLimit ==
  /\ pc \notin {"start", "idle"} =>
       awards_to_process =
         IF limit # None /\ IntOf(limit) > 0
         THEN SubSeq(awards, 1, Min(IntOf(limit), Len(awards)))
         ELSE awards
  /\ Returned =>
       \A p \in 1..Len(enriched_awards) :
         enriched_awards[p].enriched_data = SkipSentinel =>
           limit # None /\ IntOf(limit) > 0 /\ IntOf(limit) < Len(awards)

\* C4 (as claimed): a destination never holds an empty or partially written
\* file: it is absent or holds the full content of a completed save.
C4_SaveIsAtomic ==
  /\ partial_file.st \in {"absent", "ok"}
  /\ final_file.st \in {"absent", "ok"}

\* the records of this run a restart can read back from the checkpoint
Recoverable ==
  IF /\ partial_file.st = "ok"
     /\ Len(partial_file.data) <= Len(enriched_awards)
     /\ partial_file.data = SubSeq(enriched_awards, 1, Len(partial_file.data))
  THEN partial_file.data
  ELSE << >>

\* C5 (as claimed): wherever a crash stops the batch, and no checkpoint
\* write having raised, all accumulated records but at most the most
\* recent one can be read back from the partial checkpoint.
C5_AtMostOneRecordLost ==
  (InBatch /\ ~write_error) => Len(enriched_awards) - Len(Recoverable) <= 1

\* C6 (as claimed): when the handler of lines 179-185 passes a cancellation
\* on to the caller, the accumulated results have been written to the
\* partial checkpoint first.
C6_CancellationFlushesFirst ==
  pc = "cancelled" => (flushed \/ partial_file = FileOf(enriched_awards))

\* C7 (as claimed): in the output of a run with credentials every
\* working-subset record whose enrichment failed has no enriched_data field.
C7_FailedHasNoEnrichedData ==
  (Returned /\ api_key) =>
    \A p \in 1..Len(outcomes) :
      (p <= Len(enriched_awards) /\ outcomes[p] = "failed") =>
        enriched_awards[p].enriched_data = Absent

\* C7 (amended): every working-subset record whose enrichment failed has
\* exactly the enriched_data of its input record: none when the input
\* record has none, the earlier value when it carries one.
C7_FailedKeepsInputEnrichedData ==
  \A p \in 1..Len(outcomes) :
    (p <= Len(enriched_awards) /\ outcomes[p] = "failed") =>
      enriched_awards[p].enriched_data = awards[p].enriched_data

\* C7 witness: a finished run in which a record that carried data of an
\* earlier run failed and still carries that data, next to a record that
\* carried none, failed and has none.
C7_Witness ==
  /\ pc = "done"
  /\ api_key
  /\ \E p, q \in 1..Len(outcomes) :
       /\ outcomes[p] = "failed"
       /\ awards[p].enriched_data = OldData
       /\ enriched_awards[p].enriched_data = OldData
       /\ outcomes[q] = "failed"
       /\ awards[q].enriched_data = Absent
       /\ enriched_awards[q].enriched_data = Absent

\* C8: whatever the per-record failures, every iteration leaves its record
\* in the accumulated list and moves on, and a run that returns has
\* attempted every record of the working subset and holds them all in order.
C8_FailureNeverAborts ==
  /\ pc = "loop" =>
       /\ Len(outcomes) = i - 1
       /\ Len(enriched_awards) = i - 1
       /\ i <= Len(awards_to_process) + 1
  /\ Returned =>
       /\ Len(outcomes) = Len(awards_to_process)
       /\ Len(enriched_awards) >= Len(awards_to_process)
       /\ \A p \in 1..Len(awards_to_process) :
            p <= Len(enriched_awards) =>
              enriched_awards[p].award_name = awards_to_process[p].award_name

\* C8 witness: a run with credentials over at least two records, every one
\* of which failed, has finished normally.
C8_Witness ==
  /\ pc = "done"
  /\ api_key
  /\ Len(awards_to_process) >= 2
  /\ Len(outcomes) = Len(awards_to_process)
  /\ \A p \in 1..Len(outcomes) : outcomes[p] = "failed"

\* C9: a run that returns normally returns as many records as the input
\* holds, with the award_name of every position that of the input.
C9_SameLengthAndOrder ==
  Returned =>
    /\ Len(enriched_awards) = Len(awards)
    /\ \A p \in 1..Len(awards) :
         p <= Len(enriched_awards) =>
           enriched_awards[p].award_name = awards[p].award_name

\* C9 witness: a finished run over three records cut by a limit, with a
\* failed record and a failed checkpoint write.
C9_Witness ==
  /\ pc = "done"
  /\ Len(awards) = 3
  /\ limit = Some(2)
  /\ write_error
  /\ api_key
  /\ outcomes = <<"enriched", "failed">>
  /\ Len(enriched_awards) = 3

\* C10 (as claimed): in a run with credentials and a positive limit smaller
\* than the number of records, every output record beyond the limit carries
\* the skip sentinel and every record within the limit carries the
\* extracted payload or no enriched_data at all.
C10_LimitSemantics ==
  (/\ Returned
   /\ api_key
   /\ limit # None
   /\ IntOf(limit) > 0
   /\ IntOf(limit) < Len(awards)) =>
    \A p \in 1..Len(enriched_awards) :
      IF p > IntOf(limit)
      THEN enriched_awards[p].enriched_data = SkipSentinel
      ELSE \/ enriched_awards[p].enriched_data \in ExtractedPayloads
           \/ enriched_awards[p].enriched_data = Absent

\* C10 (amended): with a positive limit smaller than the number of records,
\* every output record beyond the limit carries the skip sentinel and every
\* record within the limit was attempted: it carries the extracted payload
\* when its enrichment succeeded and otherwise exactly the enriched_data of
\* its input record.
C10_LimitSemanticsAmended ==
  (Returned /\ limit # None /\ IntOf(limit) > 0 /\ IntOf(limit) < Len(awards)) =>
    /\ Len(enriched_awards) = Len(awards)
    /\ Len(outcomes) = IntOf(limit)
    /\ \A p \in 1..Len(enriched_awards) :
         IF p > IntOf(limit)
         THEN enriched_awards[p].enriched_data = SkipSentinel
         ELSE IF p <= Len(outcomes) /\ outcomes[p] = "enriched"
              THEN enriched_awards[p].enriched_data \in ExtractedPayloads
              ELSE enriched_awards[p].enriched_data = awards[p].enriched_data

\* C10 witness: limit 2 on three records, the first enriched, the second
\* failed with data of an earlier run, the third skipped.
C10_Witness ==
  /\ pc = "done"
  /\ limit = Some(2)
  /\ Len(awards) = 3
  /\ outcomes = <<"enriched", "failed">>
  /\ awards[2].enriched_data = OldData
  /\ enriched_awards[1].enriched_data \in ExtractedPayloads
  /\ enriched_awards[2].enriched_data = OldData
  /\ enriched_awards[3].enriched_data = SkipSentinel

\* C11: the list merge_awards returns is in ascending order of award_name
\* under the comparison of code points, the names taken as the records carry
\* them (surrounding whitespace included).
C11_SortedByAwardName ==
  mpc = "merged" =>
    \A p, q \in 1..Len(merged_awards) :
      p < q => StrLess(merged_awards[p].award_name, merged_awards[q].award_name)

\* C11 happens: a detailed name with leading whitespace sorts before "F",
\* which its trimmed form would follow
C11_Witness ==
  /\ mpc = "merged"
  /\ detailed_awards # << >>
  /\ detailed_awards[1].award_name = <<32, 102>>
  /\ award_names = << <<70>>, <<103>> >>
  /\ Len(merged_awards) = 3
  /\ merged_awards[1].award_name = <<32, 102>>
  /\ merged_awards[2].award_name = <<70>>

\* the entries of the detailed list whose name is k under the function norm
DetailedWithKey(norm(_), k) ==
  {p \in 1..Len(detailed_awards) : norm(detailed_awards[p].award_name) = k}

\* the record r is in the merge output
InMerged(r) == \E q \in 1..Len(merged_awards) : merged_awards[q] = r

\* of the detailed entries that are the same under norm the output holds the
\* last one in list order and none of the earlier ones, and it holds no
\* placeholder for the name of a detailed entry
LastDetailedWins(norm(_)) ==
  mpc = "merged" =>
    \A p \in 1..Len(detailed_awards) :
      LET same == DetailedWithKey(norm, norm(detailed_awards[p].award_name))
          last == CHOOSE m \in same : \A n \in same : n <= m
      IN /\ InMerged(detailed_awards[last])
         /\ p # last => ~InMerged(detailed_awards[p])
         /\ ~InMerged(convert_name_to_award_dict(detailed_awards[p].award_name))

\* C12 (as claimed): when several entries of the detailed list have the same
\* normalized award_name (trimmed, case ignored), the output holds the last
\* of them and none of the earlier ones, and no placeholder replaces a
\* detailed entry.
C12_LastDetailedWins == LastDetailedWins(NormalizedName)

\* what line 32 does: the same with the names compared after strip() only
LastDetailedWinsPerMergeKey == LastDetailedWins(MergeKey)

\* the placeholder record of a bare name, as the claim C13 spells it out
Placeholder(name) ==
  [award_name |-> Strip(name),
   registration_url |-> << >>,
   categories |-> << >>,
   organization |-> << >>]

\* the keys of the detailed entries
DetailedKeys ==
  {MergeKey(detailed_awards[p].award_name) : p \in 1..Len(detailed_awards)}

\* the keys the names list adds: not blank, and of no detailed entry
NewNameKeys ==
  {Strip(award_names[p]) : p \in 1..Len(award_names)}
    \ ({<< >>} \cup DetailedKeys)

\* C13: for every string of the names list the output holds its placeholder
\* exactly when the trimmed string is not empty and no detailed entry has
\* it as key, and holds it once; a blank string adds nothing, and the output
\* has one record per key of either list (so with one list empty it is the
\* other list).
C13_PlaceholderPerNewName ==
  mpc = "merged" =>
    /\ \A p \in 1..Len(award_names) :
         LET name == award_names[p]
             at == {q \in 1..Len(merged_awards) :
                      merged_awards[q] = Placeholder(name)}
         IN /\ (at # {}) <=> (Strip(name) # << >> /\ Strip(name) \notin DetailedKeys)
            /\ Cardinality(at) <= 1
    /\ \A q \in 1..Len(merged_awards) : merged_awards[q].award_name # << >>
    /\ Len(merged_awards) = Cardinality(DetailedKeys) + Cardinality(NewNameKeys)
    /\ \A q \in 1..Len(merged_awards) :
         \/ \E p \in 1..Len(detailed_awards) : merged_awards[q] = detailed_awards[p]
         \/ \E p \in 1..Len(award_names) : merged_awards[q] = Placeholder(award_names[p])

\* C13 happens: a blank name, and a name given twice next to a detailed
\* entry of another name
C13_Witness ==
  /\ mpc = "merged"
  /\ Len(detailed_awards) = 1
  /\ detailed_awards[1].award_name = <<103>>
  /\ award_names \in { << <<32>>, <<102>> >>, << <<32, 102>>, <<102, 32>> >> }
  /\ merged_awards = <<Placeholder(<<102>>), detailed_awards[1]>>

\* C13 happens with an empty detailed list
C13_WitnessNamesOnly ==
  /\ mpc = "merged"
  /\ detailed_awards = << >>
  /\ award_names = << <<103>>, <<102>> >>
  /\ merged_awards = <<Placeholder(<<102>>), Placeholder(<<103>>)>>

\* C14: merging the output of a merge with an empty names list returns the
\* same records in the same order.
C14_MergeIdempotent ==
  mpc = "remerged" => remerged_awards = merged_awards

\* C14 happens: the first merge dropped a duplicate, added a placeholder and
\* reordered, and the second merge has run
C14_Witness ==
  /\ mpc = "remerged"
  /\ Len(detailed_awards) = 2
  /\ detailed_awards[1].award_name = <<103>>
  /\ detailed_awards[2].award_name = <<32, 102>>
  /\ award_names = << <<102>>, <<70>> >>
  /\ Len(remerged_awards) = 3
  /\ remerged_awards[1] = detailed_awards[2]
  /\ remerged_awards[2] = Placeholder(<<70>>)

\* the orderings of a list of n entries
Orderings(n) == {f \in [1..n -> 1..n] : \A p, q \in 1..n : p # q => f[p] # f[q]}

\* the list s in the ordering f
Reordered(s, f) == [p \in 1..Len(s) |-> s[f[p]]]

\* the names of both lists, the detailed ones first
AllNames ==
  [p \in 1..Len(detailed_awards) |-> detailed_awards[p].award_name] \o award_names

\* no name is blank and no two entries of the two lists have the same name,
\* surrounding whitespace apart
NamesDisjoint ==
  /\ \A p \in 1..Len(AllNames) : Strip(AllNames[p]) # << >>
  /\ \A p, q \in 1..Len(AllNames) :
       p # q => Strip(AllNames[p]) # Strip(AllNames[q])

\* C15: when the names of the two lists are pairwise disjoint the output is
\* the union, one record per detailed entry and one placeholder per name,
\* and merge_awards returns the same list for every ordering of the entries
\* within the detailed list and within the names list.
C15_DisjointUnionAnyOrder ==
  (mpc = "merged" /\ NamesDisjoint) =>
    /\ Len(merged_awards) = Len(detailed_awards) + Len(award_names)
    /\ \A p \in 1..Len(detailed_awards) : InMerged(detailed_awards[p])
    /\ \A p \in 1..Len(award_names) : InMerged(Placeholder(award_names[p]))
    /\ \A f \in Orderings(Len(detailed_awards)) :
         \A g \in Orderings(Len(award_names)) :
           merge_awards(Reordered(detailed_awards, f), Reordered(award_names, g))
             = merged_awards

\* C15 happens: two detailed entries and two names, all different, neither
\* list in the order of the output
C15_Witness ==
  /\ mpc = "merged"
  /\ NamesDisjoint
  /\ Len(detailed_awards) = 2
  /\ detailed_awards[1].award_name = <<103>>
  /\ detailed_awards[2].award_name = <<70>>
  /\ award_names = << <<104>>, <<32, 102>> >>
  /\ Len(merged_awards) = 4
  /\ merged_awards[1] = detailed_awards[2]
  /\ merged_awards[2] = Placeholder(<<102>>)

\* the positions of the braces in the reply text
OpenBraces == {k \in 1..Len(reply_content) : reply_content[k] = "{"}
CloseBraces == {k \in 1..Len(reply_content) : reply_content[k] = "}"}

\* the text has a "{" with a "}" after it
HasBracePair == \E a \in OpenBraces : \E b \in CloseBraces : a < b

\* the text from the first "{" to the last "}", when HasBracePair
BraceSpan ==
  LET a == CHOOSE k \in OpenBraces : \A j \in OpenBraces : k <= j
      b == CHOOSE k \in CloseBraces : \A j \in CloseBraces : j <= k
  IN SubSeq(reply_content, a, b)

\* the keys of a JSON object of the model: none, or the key of its member
TopLevelKeys(obj) == IF Len(obj) >= 4 THEN {obj[2]} ELSE {}

\* C16: a reply without a "{" that a "}" follows is classified NoJsonFound;
\* otherwise, when the text from the first "{" to the last "}" is not valid
\* JSON, MalformedJson; otherwise, when the object has no top-level
\* bookAward key, MissingEnvelope; and in these three cases the record is
\* returned with no enriched_data attached.
C16_ClassificationOrder ==
  xpc = "extracted" =>
    /\ ~HasBracePair => reply_outcome = "NoJsonFound"
    /\ (HasBracePair /\ ~IsJsonValue(BraceSpan)) => reply_outcome = "MalformedJson"
    /\ (HasBracePair /\ IsJsonValue(BraceSpan) /\ "B" \notin TopLevelKeys(BraceSpan))
          => reply_outcome = "MissingEnvelope"
    /\ reply_outcome \in {"NoJsonFound", "MalformedJson", "MissingEnvelope"}
          => reply_result = reply_award
    /\ reply_content = <<"n", "n">> => reply_outcome = "NoJsonFound"
    /\ reply_content = <<"{", "n", "}">> => reply_outcome = "MalformedJson"
    /\ reply_content = <<"{", "O", "1", "}">> => reply_outcome = "MissingEnvelope"

\* C16 happens: the only "{" comes after the "}", so there is no JSON to
\* cut out
C16_Witness ==
  /\ xpc = "extracted"
  /\ reply_content = <<"}", "n", "{">>
  /\ reply_outcome = "NoJsonFound"
  /\ reply_result = reply_award

\* two objects in one reply are cut out as one text, which is no JSON
C16_WitnessMalformed ==
  /\ xpc = "extracted"
  /\ reply_content = <<"{", "}", "{", "}">>
  /\ reply_outcome = "MalformedJson"
  /\ reply_result = reply_award

\* an empty object inside prose has no envelope
C16_WitnessMissingEnvelope ==
  /\ xpc = "extracted"
  /\ reply_content = <<"n", "{", "}", "B">>
  /\ reply_outcome = "MissingEnvelope"
  /\ reply_result = reply_award

\* the token at position k of the reply is a brace
IsBrace(k) == reply_content[k] \in {"{", "}"}

\* the reply is prose without braces, then the object {bookAward: v} with a
\* valid JSON value v from position a + 2 to b - 1, then prose without braces
EnvelopedBetween(a, b) ==
  /\ a + 3 <= b
  /\ reply_content[a] = "{"
  /\ reply_content[a + 1] = "B"
  /\ reply_content[b] = "}"
  /\ IsJsonValue(SubSeq(reply_content, a + 2, b - 1))
  /\ \A k \in 1..(a - 1) : ~IsBrace(k)
  /\ \A k \in (b + 1)..Len(reply_content) : ~IsBrace(k)

\* C17: for a valid bookAward-enveloped JSON text between brace-free prose
\* the extraction finds the inner payload as it is, and the record returned
\* has exactly that payload as enriched_data, whatever enriched_data it had,
\* and is otherwise the record passed in.
C17_PayloadAttachedVerbatim ==
  xpc = "extracted" =>
    \A a, b \in 1..Len(reply_content) :
      EnvelopedBetween(a, b) =>
        /\ reply_outcome = "ok"
        /\ Extract(reply_content).payload = SubSeq(reply_content, a + 2, b - 1)
        /\ reply_result =
             [reply_award EXCEPT !.enriched_data = SubSeq(reply_content, a + 2, b - 1)]

\* C17 happens: prose on both sides of the envelope, and the record had an
\* enriched_data of an earlier run
C17_Witness ==
  /\ xpc = "extracted"
  /\ reply_content = <<"n", "{", "B", "1", "}", "n">>
  /\ EnvelopedBetween(2, 5)
  /\ reply_award.enriched_data = OldData
  /\ reply_result.enriched_data = <<"1">>

\* C17 happens with an object as payload
C17_WitnessObject ==
  /\ xpc = "extracted"
  /\ reply_content = <<"n", "{", "B", "{", "}", "}">>
  /\ reply_award.enriched_data = OldData
  /\ reply_result.enriched_data = <<"{", "}">>

\* the names of the records of a list, in order
NamesOf(s) == [p \in 1..Len(s) |-> s[p].award_name]

\* the working subset as the claim C3 defines it: the first `limit` records
\* for a positive limit, the whole input otherwise
ClaimedWorkingSubset ==
  IF limit # None /\ IntOf(limit) > 0
  THEN SubSeq(awards, 1, Min(IntOf(limit), Len(awards)))
  ELSE awards

\* C18 (as claimed): with a key configured, the requests made so far are one
\* per record of a prefix of the working subset, in input order, so none is
\* repeated after a failure and none is for a record beyond the limit; when
\* the loop has ended without cancellation they are one per record of the
\* working subset.
C18_OneRequestPerWorkingRecord ==
  (api_key /\ pc \notin {"start", "idle"}) =>
    /\ \E n \in 0..Len(ClaimedWorkingSubset) :
         calls = NamesOf(SubSeq(ClaimedWorkingSubset, 1, n))
    /\ Returned => calls = NamesOf(ClaimedWorkingSubset)

\* what lines 165-188 do: the same for the records of awards_to_process,
\* the slice self.awards[:limit] of line 165
OneRequestPerProcessedRecord ==
  api_key =>
    /\ \E n \in 0..Len(awards_to_process) :
         calls = NamesOf(SubSeq(awards_to_process, 1, n))
    /\ Returned => calls = NamesOf(awards_to_process)
    /\ (pc \notin {"start", "idle"} /\ limit # None /\ IntOf(limit) > 0) =>
         /\ Len(calls) <= IntOf(limit)
         /\ calls = NamesOf(SubSeq(awards, 1, Len(calls)))

\* the file is as it was before the run
Untouched(f) == f \in {AbsentFile, FileOf(StaleRun)}

\* C19 (as claimed): without an API key the run is aborted: the loop does
\* not run to its end and neither the checkpoint nor the output file is
\* written.
C19_MissingKeyAborts ==
  (~api_key /\ awards_to_process # << >>) =>
    /\ ~Returned
    /\ Untouched(partial_file)
    /\ Untouched(final_file)

\* C19 (amended): without an API key the run goes on as after any failed
\* enrichment: no request is made, every record the loop has passed is
\* counted as failed and appended as it came in, none is left out, and the
\* checkpoint and the output file are written from that list as in a run
\* with a key.
C19_MissingKeyIsPerRecordFailure ==
  ~api_key =>
    /\ calls = << >>
    /\ \A p \in 1..Len(outcomes) :
         outcomes[p] = "failed" /\ enriched_awards[p] = awards_to_process[p]
    /\ pc = "loop" => Len(enriched_awards) = i - 1
    /\ Returned =>
         enriched_awards = awards_to_process \o SkippedTail(awards, limit)
    /\ (pc = "loop" /\ i > 1 /\ ~write_error) =>
         partial_file = FileOf(enriched_awards)
    /\ (pc = "done" /\ final_file.st = "ok" /\ ~Untouched(final_file)) =>
         final_file = FileOf(enriched_awards)

\* C19 happens: no key, two records, and the run has ended with both files
\* written
C19_Witness ==
  /\ ~api_key
  /\ pc = "done"
  /\ Len(awards) = 2
  /\ limit = None
  /\ outcomes = <<"failed", "failed">>
  /\ enriched_awards = awards
  /\ partial_file = FileOf(awards)
  /\ final_file = FileOf(awards)

\* the run was cancelled inside the batch: the interrupt is in the handler
\* of lines 179-185 or has left enrich_awards_with_perplexity
CancelledInBatch ==
  pc \in {"handler", "handler_dump", "cancelled", "interrupted", "error"}

\* C20: while the batch runs and when it is cancelled the output file is as
\* it was before the run (results in progress go to the checkpoint only);
\* the output file is opened for writing at most once in a run, and only
\* when the loop has passed the last record of the working subset and the
\* skipped tail is appended.
C20_FinalOnlyAfterBatch ==
  /\ final_opens <= 1
  /\ final_opens = 0 => Untouched(final_file)
  /\ (InBatch \/ CancelledInBatch) => final_opens = 0
  /\ final_opens = 1 =>
       /\ pc \in {"final_dump", "done", "cancelled_save"}
       /\ i = Len(awards_to_process) + 1
       /\ Len(outcomes) = Len(awards_to_process)
       /\ Len(enriched_awards) >= Len(SkippedTail(awards, limit))
       /\ PySliceFrom(enriched_awards,
                      Len(enriched_awards) - Len(SkippedTail(awards, limit)))
            = SkippedTail(awards, limit)
       /\ final_file \in {EmptyFile, PartialFile, FileOf(enriched_awards)}

\* C20 happens: a run with a skipped tail has written the output file, and
\* its checkpoint holds the working subset only
C20_Witness ==
  /\ pc = "done"
  /\ final_opens = 1
  /\ Len(awards) = 3
  /\ limit = Some(2)
  /\ final_file = FileOf(enriched_awards)
  /\ partial_file = FileOf(SubSeq(enriched_awards, 1, 2))

\* C20 happens: a run cancelled in its second record has flushed to the
\* checkpoint and left the output file of an earlier run alone
C20_WitnessCancelled ==
  /\ pc = "cancelled"
  /\ flushed
  /\ Len(enriched_awards) = 1
  /\ partial_file = FileOf(enriched_awards)
  /\ final_file = FileOf(StaleRun)

\* the list s is the beginning of the list t
IsPrefix(s, t) == Len(s) <= Len(t) /\ s = SubSeq(t, 1, Len(s))

\* the step is a checkpoint write that raised (lines 176-177, 186-188)
CheckpointWriteFailed ==
  pc \in {"open", "dump"} /\ pc' = "loop" /\ write_error'

\* C21: a step in which the checkpoint write after record i raises leaves
\* the accumulated list as it is, records 1..i in it, and no later step of
\* the run takes a record off the list, so the list the run returns still
\* begins with them.
C21_WriteFailureKeepsResults ==
  [][ /\ CheckpointWriteFailed =>
           /\ enriched_awards' = enriched_awards
           /\ Len(enriched_awards) = i
           /\ enriched_awards[i].award_name = awards_to_process[i].award_name
      /\ pc # "start" => IsPrefix(enriched_awards, enriched_awards') ]_vars

\* C21 happens: the checkpoint write after the second of two records
\* raised, and the run has returned both and saved them to the output file
C21_Witness ==
  /\ pc = "done"
  /\ write_error
  /\ Len(awards) = 2
  /\ Len(enriched_awards) = 2
  /\ outcomes = <<"enriched", "enriched">>
  /\ partial_file # FileOf(enriched_awards)
  /\ final_file = FileOf(enriched_awards)

\* what load_awards can have put into enriched_data: nothing, or the value
\* of an earlier run
LoadedData == {Absent, OldData}

C22_WitnessCancelled ==
  /\ pc = "cancelled"
  /\ flushed
  /\ enriched_awards # << >>
  /\ enriched_awards[1].enriched_data \in ExtractedPayloads
  /\ awards[1].enriched_data = Absent

====
